---- MODULE Spec2Model ----
(***************************************************************************)
(* Model of the adomcp MCP server (package mcp, src/mcp/server.go):        *)
(* the SSE transport (handleSSE), the request receiver (handleMessage),    *)
(* the dispatcher (processRequest) and the tool handlers registered by     *)
(* main.  Goroutines are anonymous, so the dispatch tasks are kept in a    *)
(* bag of task records.                                                    *)
(***************************************************************************)
EXTENDS Bags, FiniteSets, Integers, Sequences, TLC

VARIABLES
    sessions,   \* Server.sessions: session id -> channel (named by its connection)
    chans,      \* buffer of the channel made by each connection (msgChan)
    conn,       \* each handleSSE call: position, session id, context cancelled
    stream,     \* events written to each connection's ResponseWriter
    tasks,      \* bag of processRequest goroutines
    inflight,   \* bag of handleMessage calls that wait for their request body
    lastPost,   \* the handleMessage call answered last and the status it got
    nposts,     \* number of handleMessage calls begun so far
    menu,       \* the requests the clients of this run send
    budget      \* how many requests the clients of this run send

vars == <<sessions, chans, conn, stream, tasks, inflight, lastPost, nposts, menu, budget>>

----------------------------------------------------------------------------
(* Bounds *)

\* number of POSTs in a run of the protocol specification
MaxPosts == 2
\* number of POSTs in a run of the dispatch specification
MaxCalls == 1
\* number of POSTs beyond the channel capacity in a run of the load specification
MaxOverflow == 1

(* Program constants *)

\* make(chan string, 10)
ChanCap == 10

Conns == {"c1", "c2"}
SessionIDs == {"s1", "s2", "s3"}

\* the tools main registers
ToolNames == {"list_builds", "get_build", "get_build_logs",
              "list_releases", "get_release", "get_release_logs"}

Nil == [k |-> "nil"]
Absent == [k |-> "absent"]

----------------------------------------------------------------------------
(* JSON values of a request body.  An integer literal is kept as two        *)
(* decimal limbs, n = hi * 10^9 + lo, so that ids beyond 2^53 fit.          *)

Limb == 1000000000
JNull == [k |-> "null"]
JNum(hi, lo) == [k |-> "num", hi |-> hi, lo |-> lo]
JStr(s) == [k |-> "str", s |-> s]
JScalar == [k |-> "scalar"]
JArgs(m) == [k |-> "object", m |-> m]
JParams(name, arguments) == [k |-> "object", name |-> name, arguments |-> arguments]
JRequest(method, id, params) ==
    [k |-> "object", method |-> method, id |-> id, params |-> params]
Garbage == [k |-> "garbage"]

\* 2^53 = 9007199254740992 as limbs
TwoTo53Hi == 9007199
TwoTo53Lo == 254740992

\* strconv/ParseFloat as used by encoding/json for a number decoded into
\* interface{}: the nearest float64, ties to even.  Defined for integer
\* literals below 2^54, where the float64 spacing is at most 2.
ToFloat64(hi, lo) ==
    IF hi < TwoTo53Hi \/ (hi = TwoTo53Hi /\ lo <= TwoTo53Lo)
    THEN <<hi, lo>>
    ELSE CASE lo % 4 = 1 -> <<hi, lo - 1>>
           [] lo % 4 = 3 -> IF lo + 1 = Limb THEN <<hi + 1, 0>> ELSE <<hi, lo + 1>>
           [] OTHER -> <<hi, lo>>

\* json decoding of the "id" member into ID interface{}
DecodeID(tok) ==
    CASE tok.k = "num" -> [k |-> "float64", hi |-> ToFloat64(tok.hi, tok.lo)[1],
                                            lo |-> ToFloat64(tok.hi, tok.lo)[2]]
      [] tok.k = "str" -> [k |-> "string", s |-> tok.s]
      [] OTHER -> Nil

\* json encoding of ID interface{} `json:"id,omitempty"`
MarshalID(v) ==
    CASE v.k = "float64" -> JNum(v.hi, v.lo)
      [] v.k = "string" -> JStr(v.s)
      [] OTHER -> Absent

\* json.NewDecoder(r.Body).Decode(&req)
DecodeRequest(body) ==
    IF body.k = "garbage"
    THEN [err |-> TRUE, Method |-> "", Params |-> Absent, ID |-> Nil]
    ELSE [err |-> FALSE, Method |-> body.method, Params |-> body.params,
          ID |-> DecodeID(body.id)]

\* json.Unmarshal(req.Params, &callReq)
UnmarshalCallToolRequest(params) ==
    CASE params.k = "null" -> [err |-> FALSE, Name |-> "", Arguments |-> <<>>]
      [] params.k = "object" ->
            [err |-> params.name.k \notin {"absent", "null", "str"}
                     \/ params.arguments.k \notin {"absent", "null", "object"},
             Name |-> IF params.name.k = "str" THEN params.name.s ELSE "",
             Arguments |-> IF params.arguments.k = "object"
                           THEN params.arguments.m ELSE <<>>]
      [] OTHER -> [err |-> TRUE, Name |-> "", Arguments |-> <<>>]

----------------------------------------------------------------------------
(* The tool handlers registered by main *)

\* the argument a get_* handler requires
RequiredID(name) ==
    CASE name \in {"get_build", "get_build_logs"} -> "buildId"
      [] name \in {"get_release", "get_release_logs"} -> "releaseId"
      [] OTHER -> ""

\* args[key].(float64)
IsFloat64Arg(args, key) == key \in DOMAIN args /\ args[key].k = "num"

ValidationMessage(name) == RequiredID(name) \o " is required and must be an integer"

\* a handler that takes a missing or non-numeric id for 0 and calls the backend
HandlerOutcomesDefaultZero(name, args) ==
    {[err |-> FALSE, text |-> "backend data", backend |-> TRUE],
     [err |-> TRUE, text |-> "API request failed", backend |-> TRUE]}

\* what a handler can return: (result, nil) or (nil, err), and whether it
\* called the backend client on the way.  The backend client is outside
\* the server, so its outcome is a free choice.
HandlerOutcomes(name, args) ==
    IF RequiredID(name) # "" /\ ~IsFloat64Arg(args, RequiredID(name))
    THEN {[err |-> TRUE, text |-> ValidationMessage(name), backend |-> FALSE]}
    ELSE {[err |-> FALSE, text |-> "backend data", backend |-> TRUE],
          [err |-> TRUE, text |-> "API request failed", backend |-> TRUE]}

----------------------------------------------------------------------------
(* processRequest: building the response *)

JSONRPCError(code, message) == [k |-> "error", code |-> code, message |-> message]

CallToolResult(text, isError) ==
    [k |-> "CallToolResult", content |-> <<[type |-> "text", text |-> text]>>,
     isError |-> isError]

JSONRPCResponse(id, result, error) ==
    [JSONRPC |-> "2.0", ID |-> id, Result |-> result, Error |-> error]

\* a lookup that takes any non-empty name for a registered tool
HandlerFoundAnyName(req) ==
    /\ req.Method = "tools/call"
    /\ ~UnmarshalCallToolRequest(req.Params).err
    /\ UnmarshalCallToolRequest(req.Params).Name # ""

\* the registry lookup of tools/call: s.Handlers[callReq.Name]
HandlerFound(req) ==
    /\ req.Method = "tools/call"
    /\ ~UnmarshalCallToolRequest(req.Params).err
    /\ UnmarshalCallToolRequest(req.Params).Name \in ToolNames

\* a default branch that ignores the method instead of answering an error
DirectResponseSilentDefault(req) ==
    CASE req.Method = "tools/list" ->
            JSONRPCResponse(req.ID, [k |-> "tools", tools |-> SetToBag(ToolNames)], Nil)
      [] req.Method = "tools/call" ->
            IF UnmarshalCallToolRequest(req.Params).err
            THEN JSONRPCResponse(req.ID, Nil, JSONRPCError(-32602, "Invalid params"))
            ELSE JSONRPCResponse(req.ID, Nil, JSONRPCError(-32601, "Method not found"))
      [] req.Method = "initialize" ->
            JSONRPCResponse(req.ID,
                [k |-> "initialize", protocolVersion |-> "2024-11-05",
                 serverInfo |-> [name |-> "adomcp", version |-> "1.0.0"]], Nil)
      [] OTHER -> JSONRPCResponse(req.ID, Nil, Nil)

\* a default branch whose message leaves the method name out
DirectResponseNoMethodName(req) ==
    CASE req.Method = "tools/list" ->
            JSONRPCResponse(req.ID, [k |-> "tools", tools |-> SetToBag(ToolNames)], Nil)
      [] req.Method = "tools/call" ->
            IF UnmarshalCallToolRequest(req.Params).err
            THEN JSONRPCResponse(req.ID, Nil, JSONRPCError(-32602, "Invalid params"))
            ELSE JSONRPCResponse(req.ID, Nil, JSONRPCError(-32601, "Method not found"))
      [] req.Method = "initialize" ->
            JSONRPCResponse(req.ID,
                [k |-> "initialize", protocolVersion |-> "2024-11-05",
                 serverInfo |-> [name |-> "adomcp", version |-> "1.0.0"]], Nil)
      [] OTHER ->
            JSONRPCResponse(req.ID, Nil, JSONRPCError(-32601, "Method not found"))

\* a tools/list that leaves one registered tool out
DirectResponseShortList(req) ==
    CASE req.Method = "tools/list" ->
            [JSONRPC |-> "2.0", ID |-> req.ID,
             Result |-> [k |-> "tools",
                         tools |-> SetToBag(ToolNames \ {"get_release_logs"})],
             Error |-> Nil]
      [] req.Method = "tools/call" ->
            IF UnmarshalCallToolRequest(req.Params).err
            THEN JSONRPCResponse(req.ID, Nil, JSONRPCError(-32602, "Invalid params"))
            ELSE JSONRPCResponse(req.ID, Nil, JSONRPCError(-32601, "Method not found"))
      [] req.Method = "initialize" ->
            JSONRPCResponse(req.ID,
                [k |-> "initialize", protocolVersion |-> "2024-11-05",
                 serverInfo |-> [name |-> "adomcp", version |-> "1.0.0"]], Nil)
      [] OTHER ->
            JSONRPCResponse(req.ID, Nil,
                JSONRPCError(-32601, "Method not found: " \o req.Method))

\* the response of every branch of the switch that calls no handler
DirectResponse(req) ==
    CASE req.Method = "tools/list" ->
            JSONRPCResponse(req.ID, [k |-> "tools", tools |-> SetToBag(ToolNames)], Nil)
      [] req.Method = "tools/call" ->
            IF UnmarshalCallToolRequest(req.Params).err
            THEN JSONRPCResponse(req.ID, Nil, JSONRPCError(-32602, "Invalid params"))
            ELSE JSONRPCResponse(req.ID, Nil, JSONRPCError(-32601, "Method not found"))
      [] req.Method = "initialize" ->
            JSONRPCResponse(req.ID,
                [k |-> "initialize", protocolVersion |-> "2024-11-05",
                 serverInfo |-> [name |-> "adomcp", version |-> "1.0.0"]], Nil)
      [] OTHER ->
            JSONRPCResponse(req.ID, Nil,
                JSONRPCError(-32601, "Method not found: " \o req.Method))

\* a dispatcher that reports a handler failure as a JSON-RPC error
HandlerResponseAsError(req, out) ==
    IF out.err
    THEN [JSONRPC |-> "2.0", ID |-> req.ID, Result |-> Nil,
          Error |-> [k |-> "error", code |-> -32603, message |-> out.text]]
    ELSE [JSONRPC |-> "2.0", ID |-> req.ID,
          Result |-> [k |-> "CallToolResult",
                      content |-> <<[type |-> "text", text |-> out.text]>>,
                      isError |-> FALSE],
          Error |-> Nil]

\* the response after handler(callReq.Arguments) has returned
HandlerResponse(req, out) ==
    IF out.err
    THEN JSONRPCResponse(req.ID, CallToolResult(out.text, TRUE), Nil)
    ELSE JSONRPCResponse(req.ID, CallToolResult(out.text, FALSE), Nil)

\* json.Marshal(response): omitempty drops a nil result, error and id
Marshal(response) ==
    [jsonrpc |-> response.JSONRPC,
     id |-> MarshalID(response.ID),
     result |-> IF response.Result = Nil THEN Absent ELSE response.Result,
     error |-> IF response.Error = Nil THEN Absent ELSE response.Error]

----------------------------------------------------------------------------
(* State *)

\* a processRequest goroutine: the request it was given (body, posted to
\* session sid), the channel it was given, its position, the handler it
\* called, what the handler returned and the response it built
Task(sid, ch, body, pc, called, out, resp) ==
    [sid |-> sid, chan |-> ch, body |-> body, pc |-> pc, called |-> called,
     out |-> out, resp |-> resp]

TaskSet == BagToSet(tasks)

Replace(t, u) == (tasks (-) SetToBag({t})) (+) SetToBag({u})

\* the body of an HTTP response: nothing, or the text http.Error writes
NoBody == [k |-> "empty"]
ErrorBody(msg) == [k |-> "text", text |-> msg \o "\n"]

NoPost == [verb |-> "", sessionId |-> "", body |-> Garbage, status |-> 0, reply |-> NoBody]

InitServer ==
    /\ sessions = <<>>
    /\ chans = [c \in Conns |-> <<>>]
    /\ conn = [c \in Conns |-> [pc |-> "idle", sessionID |-> "", cancelled |-> FALSE]]
    /\ stream = [c \in Conns |-> <<>>]
    /\ tasks = EmptyBag
    /\ inflight = EmptyBag
    /\ lastPost = NoPost
    /\ nposts = 0

----------------------------------------------------------------------------
(* handleSSE *)

\* an id generator that can hand out the same id twice
NewUUIDReused == CHOOSE id \in SessionIDs : TRUE

\* uuid.New(): an id no connection has had
NewUUID == CHOOSE id \in SessionIDs : \A c \in Conns : conn[c].sessionID # id

\* lines 59-62: make the channel, sessions.Store
Open(c) ==
    /\ conn[c].pc = "idle"
    /\ conn' = [conn EXCEPT ![c].pc = "registered", ![c].sessionID = NewUUID]
    /\ sessions' = [x \in DOMAIN sessions \cup {NewUUID} |->
                        IF x = NewUUID THEN c ELSE sessions[x]]
    /\ UNCHANGED <<inflight, chans, stream, tasks, lastPost, nposts, menu, budget>>

\* lines 65-67: write and flush the endpoint event
Announce(c) ==
    /\ conn[c].pc = "registered"
    /\ stream' = [stream EXCEPT ![c] =
                    Append(@, [event |-> "endpoint", data |-> conn[c].sessionID])]
    /\ conn' = [conn EXCEPT ![c].pc = "loop"]
    /\ UNCHANGED <<inflight, sessions, chans, tasks, lastPost, nposts, menu, budget>>

\* a transport loop that receives the newest message of the channel first
PushNewestFirst(c) ==
    /\ conn[c].pc = "loop"
    /\ chans[c] # <<>>
    /\ stream' = [stream EXCEPT ![c] =
                    Append(@, [event |-> "message", data |-> chans[c][Len(chans[c])]])]
    /\ chans' = [chans EXCEPT ![c] = SubSeq(@, 1, Len(@) - 1)]
    /\ UNCHANGED <<inflight, sessions, conn, tasks, lastPost, nposts, menu, budget>>

\* a transport loop that starts forwarding before the endpoint event is written
PushBeforeEndpoint(c) ==
    /\ conn[c].pc \in {"registered", "loop"}
    /\ chans[c] # <<>>
    /\ stream' = [stream EXCEPT ![c] =
                    Append(@, [event |-> "message", data |-> Head(chans[c])])]
    /\ chans' = [chans EXCEPT ![c] = Tail(@)]
    /\ UNCHANGED <<inflight, sessions, conn, tasks, lastPost, nposts, menu, budget>>

\* lines 75-77: case msg := <-msgChan
Push(c) ==
    /\ conn[c].pc = "loop"
    /\ chans[c] # <<>>
    /\ stream' = [stream EXCEPT ![c] =
                    Append(@, [event |-> "message", data |-> Head(chans[c])])]
    /\ chans' = [chans EXCEPT ![c] = Tail(@)]
    /\ UNCHANGED <<inflight, sessions, conn, tasks, lastPost, nposts, menu, budget>>

\* the request's context is cancelled (client gone, server shutdown)
Cancel(c) ==
    /\ conn[c].pc \in {"registered", "loop"}
    /\ ~conn[c].cancelled
    /\ conn' = [conn EXCEPT ![c].cancelled = TRUE]
    /\ UNCHANGED <<inflight, sessions, chans, stream, tasks, lastPost, nposts, menu, budget>>

\* a transport loop that looks at the context only after it has received a message
ExitOnNextMessage(c) ==
    /\ conn[c].pc = "loop"
    /\ conn[c].cancelled
    /\ chans[c] # <<>>
    /\ chans' = [chans EXCEPT ![c] = Tail(@)]
    /\ conn' = [conn EXCEPT ![c].pc = "closed"]
    /\ sessions' = [x \in DOMAIN sessions \ {conn[c].sessionID} |-> sessions[x]]
    /\ UNCHANGED <<inflight, stream, tasks, lastPost, nposts, menu, budget>>

\* a handleSSE that returns without the deferred sessions.Delete
ExitWithoutDelete(c) ==
    /\ conn[c].pc = "loop"
    /\ conn[c].cancelled
    /\ conn' = [conn EXCEPT ![c].pc = "closed"]
    /\ UNCHANGED <<inflight, sessions, chans, stream, tasks, lastPost, nposts, menu, budget>>

\* lines 78-80 and the deferred sessions.Delete of line 62
Exit(c) ==
    /\ conn[c].pc = "loop"
    /\ conn[c].cancelled
    /\ conn' = [conn EXCEPT ![c].pc = "closed"]
    /\ sessions' = [x \in DOMAIN sessions \ {conn[c].sessionID} |-> sessions[x]]
    /\ UNCHANGED <<inflight, chans, stream, tasks, lastPost, nposts, menu, budget>>

----------------------------------------------------------------------------
(* handleMessage *)

\* lines 86-101: the status handleMessage answers before it reads the
\* body, or 0 when the verb is POST and the directory holds the session id
StatusOf(p) ==
    CASE p.verb # "POST" -> 405
      [] p.sessionId = "" -> 400
      [] p.sessionId \notin DOMAIN sessions -> 404
      [] OTHER -> 0

\* what handleMessage writes after that status line
ReplyOf(p) ==
    CASE p.verb # "POST" -> ErrorBody("Method not allowed")
      [] p.sessionId = "" -> ErrorBody("Missing sessionId")
      [] OTHER -> ErrorBody("Session not found")

\* a handleMessage call that holds the channel it loaded and waits in
\* Decode for the request body
Waiting(p, ch) == [verb |-> p.verb, sessionId |-> p.sessionId, body |-> p.body, chan |-> ch]

\* a receiver that reads and decodes the body before it looks the session up
handleMessageDecodeFirst(p) ==
    /\ nposts < budget
    /\ nposts' = nposts + 1
    /\ IF p.verb = "POST" /\ p.sessionId # "" /\ DecodeRequest(p.body).err
       THEN /\ lastPost' = [verb |-> p.verb, sessionId |-> p.sessionId, body |-> p.body,
                            status |-> 400, reply |-> ErrorBody("Invalid JSON")]
            /\ inflight' = inflight
       ELSE IF StatusOf(p) # 0
       THEN /\ lastPost' = [verb |-> p.verb, sessionId |-> p.sessionId, body |-> p.body,
                            status |-> StatusOf(p), reply |-> ReplyOf(p)]
            /\ inflight' = inflight
       ELSE /\ inflight' = inflight (+) SetToBag({Waiting(p, sessions[p.sessionId])})
            /\ lastPost' = lastPost
    /\ UNCHANGED <<sessions, chans, conn, stream, tasks, menu, budget>>

\* a receiver that takes the channel of any session of the directory
handleMessageAnyChannel(p) ==
    /\ nposts < budget
    /\ nposts' = nposts + 1
    /\ IF StatusOf(p) # 0
       THEN /\ lastPost' = [verb |-> p.verb, sessionId |-> p.sessionId, body |-> p.body,
                            status |-> StatusOf(p), reply |-> ReplyOf(p)]
            /\ inflight' = inflight
       ELSE /\ \E x \in DOMAIN sessions :
                    inflight' = inflight (+) SetToBag({Waiting(p, sessions[x])})
            /\ lastPost' = lastPost
    /\ UNCHANGED <<sessions, chans, conn, stream, tasks, menu, budget>>

\* lines 86-102: the verb, the sessionId parameter and sessions.Load.  A
\* call that passes them goes on to read the body, which the client may
\* deliver later: other goroutines run in between.
handleMessage(p) ==
    /\ nposts < budget
    /\ nposts' = nposts + 1
    /\ IF StatusOf(p) # 0
       THEN /\ lastPost' = [verb |-> p.verb, sessionId |-> p.sessionId, body |-> p.body,
                            status |-> StatusOf(p), reply |-> ReplyOf(p)]
            /\ inflight' = inflight
       ELSE /\ inflight' = inflight (+) SetToBag({Waiting(p, sessions[p.sessionId])})
            /\ lastPost' = lastPost
    /\ UNCHANGED <<sessions, chans, conn, stream, tasks, menu, budget>>

\* a receiver that answers 400 for a body that does not decode and still
\* starts processRequest with the zero request
handleMessageBodyNoReturn(q) ==
    /\ q \in BagToSet(inflight)
    /\ inflight' = inflight (-) SetToBag({q})
    /\ lastPost' = [verb |-> q.verb, sessionId |-> q.sessionId, body |-> q.body,
                    status |-> IF DecodeRequest(q.body).err THEN 400 ELSE 202,
                    reply |-> IF DecodeRequest(q.body).err
                              THEN ErrorBody("Invalid JSON") ELSE NoBody]
    /\ tasks' = tasks (+) SetToBag({Task(q.sessionId, q.chan, q.body, "start", "", Nil, Nil)})
    /\ UNCHANGED <<sessions, chans, conn, stream, nposts, menu, budget>>

\* a receiver that answers a request without a tool handler itself: it
\* builds the response before it acknowledges and writes it into the POST
\* response
handleMessageBodyInline(q) ==
    /\ q \in BagToSet(inflight)
    /\ inflight' = inflight (-) SetToBag({q})
    /\ LET req == DecodeRequest(q.body)
           inline == /\ ~req.err
                     /\ req.Method # "notifications/initialized"
                     /\ ~HandlerFound(req)
       IN /\ lastPost' = [verb |-> q.verb, sessionId |-> q.sessionId, body |-> q.body,
                          status |-> IF req.err THEN 400 ELSE 202,
                          reply |-> IF req.err THEN ErrorBody("Invalid JSON")
                                    ELSE IF inline
                                    THEN [k |-> "json", msg |-> Marshal(DirectResponse(req))]
                                    ELSE NoBody]
          /\ tasks' = IF req.err THEN tasks
                      ELSE tasks (+) SetToBag({
                              IF inline
                              THEN Task(q.sessionId, q.chan, q.body,
                                        "done", "", Nil, DirectResponse(req))
                              ELSE Task(q.sessionId, q.chan, q.body,
                                        "start", "", Nil, Nil)})
    /\ UNCHANGED <<sessions, chans, conn, stream, nposts, menu, budget>>

\* lines 104-114: Decode returns; 400, or 202 and go processRequest with
\* the channel loaded on line 97
handleMessageBody(q) ==
    /\ q \in BagToSet(inflight)
    /\ inflight' = inflight (-) SetToBag({q})
    /\ lastPost' = [verb |-> q.verb, sessionId |-> q.sessionId, body |-> q.body,
                    status |-> IF DecodeRequest(q.body).err THEN 400 ELSE 202,
                    reply |-> IF DecodeRequest(q.body).err
                              THEN ErrorBody("Invalid JSON") ELSE NoBody]
    /\ tasks' = IF DecodeRequest(q.body).err
                THEN tasks
                ELSE tasks (+) SetToBag({Task(q.sessionId, q.chan, q.body,
                                              "start", "", Nil, Nil)})
    /\ UNCHANGED <<sessions, chans, conn, stream, nposts, menu, budget>>

----------------------------------------------------------------------------
(* processRequest, one goroutine per accepted request *)

\* a dispatcher without the notifications/initialized case: the request
\* falls to the default branch and is answered
DispatchAnswersNotification(t) ==
    /\ t.pc = "start"
    /\ LET req == DecodeRequest(t.body) IN
         tasks' = Replace(t,
            CASE HandlerFound(req) ->
                    [t EXCEPT !.pc = "handler",
                              !.called = UnmarshalCallToolRequest(req.Params).Name]
              [] OTHER -> [t EXCEPT !.pc = "send", !.resp = DirectResponse(req)])
    /\ UNCHANGED <<inflight, sessions, chans, conn, stream, lastPost, nposts, menu, budget>>

\* a dispatcher that holds a server-wide lock while a handler runs
DispatchUnderLock(t) ==
    /\ t.pc = "start"
    /\ \A u \in TaskSet : u.pc # "handler"
    /\ LET req == DecodeRequest(t.body) IN
         tasks' = Replace(t,
            CASE req.Method = "notifications/initialized" -> [t EXCEPT !.pc = "done"]
              [] HandlerFound(req) ->
                    [t EXCEPT !.pc = "handler",
                              !.called = UnmarshalCallToolRequest(req.Params).Name]
              [] OTHER -> [t EXCEPT !.pc = "send", !.resp = DirectResponse(req)])
    /\ UNCHANGED <<inflight, sessions, chans, conn, stream, lastPost, nposts, menu, budget>>

\* lines 118-176 up to the handler call, or up to the marshalled response
Dispatch(t) ==
    /\ t.pc = "start"
    /\ LET req == DecodeRequest(t.body) IN
         tasks' = Replace(t,
            CASE req.Method = "notifications/initialized" -> [t EXCEPT !.pc = "done"]
              [] HandlerFound(req) ->
                    [t EXCEPT !.pc = "handler",
                              !.called = UnmarshalCallToolRequest(req.Params).Name]
              [] OTHER -> [t EXCEPT !.pc = "send", !.resp = DirectResponse(req)])
    /\ UNCHANGED <<inflight, sessions, chans, conn, stream, lastPost, nposts, menu, budget>>

\* line 146-154: the handler returns
HandlerReturn(t) ==
    /\ t.pc = "handler"
    /\ LET req == DecodeRequest(t.body) IN
         \E out \in HandlerOutcomes(t.called, UnmarshalCallToolRequest(req.Params).Arguments) :
            tasks' = Replace(t, [t EXCEPT !.pc = "send", !.out = out,
                                            !.resp = HandlerResponse(req, out)])
    /\ UNCHANGED <<inflight, sessions, chans, conn, stream, lastPost, nposts, menu, budget>>

\* a send made under a server-wide lock: while one sender waits on a full
\* channel no other sender gets through
SendUnderLock(t) ==
    /\ t.pc = "send"
    /\ \A u \in TaskSet : u.pc = "send" => Len(chans[u.chan]) < ChanCap
    /\ chans' = [chans EXCEPT ![t.chan] =
                    Append(@, [msg |-> Marshal(t.resp), sid |-> t.sid, body |-> t.body,
                               out |-> t.out])]
    /\ tasks' = Replace(t, [t EXCEPT !.pc = "done"])
    /\ UNCHANGED <<inflight, sessions, conn, stream, lastPost, nposts, menu, budget>>

\* a non-blocking send that gives the response up when the channel is busy
SendOrDrop(t) ==
    /\ t.pc = "send"
    /\ chans' = [chans EXCEPT ![t.chan] =
                    IF @ = <<>>
                    THEN <<[msg |-> Marshal(t.resp), sid |-> t.sid, body |-> t.body,
                            out |-> t.out]>>
                    ELSE @]
    /\ tasks' = Replace(t, [t EXCEPT !.pc = "done"])
    /\ UNCHANGED <<inflight, sessions, conn, stream, lastPost, nposts, menu, budget>>

\* lines 178-179: msgChan <- string(respBytes), blocking while the buffer is full.
\* The channel item is the marshalled response; sid, body and out record
\* the request it answers.
\* a send that enqueues the response twice
SendTwice(t) ==
    /\ t.pc = "send"
    /\ Len(chans[t.chan]) + 1 < ChanCap
    /\ chans' = [chans EXCEPT ![t.chan] =
                    Append(Append(@, [msg |-> Marshal(t.resp), sid |-> t.sid,
                                      body |-> t.body, out |-> t.out]),
                           [msg |-> Marshal(t.resp), sid |-> t.sid, body |-> t.body,
                            out |-> t.out])]
    /\ tasks' = Replace(t, [t EXCEPT !.pc = "done"])
    /\ UNCHANGED <<inflight, sessions, conn, stream, lastPost, nposts, menu, budget>>

Send(t) ==
    /\ t.pc = "send"
    /\ Len(chans[t.chan]) < ChanCap
    /\ chans' = [chans EXCEPT ![t.chan] =
                    Append(@, [msg |-> Marshal(t.resp), sid |-> t.sid, body |-> t.body,
                               out |-> t.out])]
    /\ tasks' = Replace(t, [t EXCEPT !.pc = "done"])
    /\ UNCHANGED <<inflight, sessions, conn, stream, lastPost, nposts, menu, budget>>

----------------------------------------------------------------------------
(* The requests the clients send *)

Post(verb, sessionId, body) == [verb |-> verb, sessionId |-> sessionId, body |-> body]

\* 2^53 + 1 = 9007199254740993
BigID == JNum(9007199, 254740993)

IDs == {Absent, JNull, JNum(0, 1), JNum(0, 2), BigID, JStr("a")}

Methods == {"initialize", "tools/list", "notifications/initialized", "ping",
            "resources/list"}

ArgumentMaps == {<<>>, [buildId |-> JNum(0, 7)], [buildId |-> JStr("7")],
                 [releaseId |-> JNum(0, 7)]}

ParamsSet ==
    {Absent, JNull, JScalar}
    \cup {JParams(n, a) :
            n \in {Absent, JNum(0, 5), JStr("get_build"), JStr("list_builds"),
                   JStr("get_release_logs"), JStr("no_such_tool")},
            a \in {Absent, JScalar} \cup {JArgs(m) : m \in ArgumentMaps}}

Bodies ==
    {Garbage}
    \cup {JRequest(m, id, Absent) : m \in Methods, id \in IDs}
    \cup {JRequest("tools/call", id, p) : id \in IDs, p \in ParamsSet}

CallBuild1 ==
    JRequest("tools/call", JNum(0, 1),
             JParams(JStr("get_build"), JArgs([buildId |-> JNum(0, 7)])))
CallList2 == JRequest("tools/call", JNum(0, 2), JParams(JStr("list_builds"), Absent))
Notification == JRequest("notifications/initialized", JNull, Absent)
ListTools1 == JRequest("tools/list", JNum(0, 1), Absent)
CallNoBuildId == JRequest("tools/call", JNum(0, 1), JParams(JStr("get_build"), Absent))

\* the requests of the protocol specification: two sessions, every status
ProtocolMenu ==
    {Post("POST", "s1", CallBuild1), Post("POST", "s1", CallList2),
     Post("POST", "s1", Notification), Post("POST", "s2", CallList2),
     Post("POST", "s3", CallBuild1), Post("POST", "", CallBuild1),
     Post("GET", "s1", CallBuild1), Post("POST", "s1", Garbage)}

\* the requests of the fair specification: calls with ids 1 and 2 on one session
FairMenu == {Post("POST", "s1", CallBuild1), Post("POST", "s1", CallList2)}

\* the requests of the receiver specification: every combination of verb,
\* session id and body
ReceiverMenu ==
    {Post(v, sid, b) : v \in {"POST", "GET"}, sid \in {"", "s1", "s3"},
                       b \in {Garbage, CallList2}}

\* the request of the tools/list scenario
ListMenu == {Post("POST", "s1", ListTools1)}

\* the requests of the notification scenario: a notification and a call
NotifyMenu == {Post("POST", "s1", Notification), Post("POST", "s1", CallList2)}

\* the scenarios of the fair specification
FairMenus == {FairMenu, ListMenu, NotifyMenu}

\* the requests of the slow-handler specification: a call whose handler may
\* never return, and a tools/list on the same and on the other session
SlowMenu ==
    {Post("POST", "s1", CallBuild1), Post("POST", "s1", ListTools1),
     Post("POST", "s2", ListTools1)}

\* the request of the load specification
LoadMenu == {Post("POST", "s1", CallNoBuildId)}

\* the requests of the stalled-session specification: more load on the
\* stalled session, and a call on the other session
StalledMenu == {Post("POST", "s1", CallNoBuildId), Post("POST", "s2", CallList2)}

----------------------------------------------------------------------------
(* Specifications *)

Next ==
    \/ \E c \in Conns : Open(c)
    \/ \E c \in Conns : Announce(c)
    \/ \E c \in Conns : Push(c)
    \/ \E c \in Conns : Cancel(c)
    \/ \E c \in Conns : Exit(c)
    \/ \E p \in menu : handleMessage(p)
    \/ \E q \in BagToSet(inflight) : handleMessageBody(q)
    \/ \E t \in TaskSet : Dispatch(t)
    \/ \E t \in TaskSet : HandlerReturn(t)
    \/ \E t \in TaskSet : Send(t)


\* two sessions and a few requests, in every interleaving
Init == InitServer /\ menu = ProtocolMenu /\ budget = MaxPosts
Spec == Init /\ [][Next]_vars

\* every goroutine that can run does run: the transport loops, the
\* dispatch tasks, and the handlers return
Fairness ==
    /\ \A c \in Conns : WF_vars(Announce(c)) /\ WF_vars(Push(c)) /\ WF_vars(Exit(c))
    /\ WF_vars(\E t \in TaskSet : Dispatch(t))
    /\ WF_vars(\E t \in TaskSet : HandlerReturn(t))
    /\ WF_vars(\E t \in TaskSet : Send(t))
\* the scenarios of a few requests under that scheduling
InitFair == InitServer /\ menu \in FairMenus /\ budget = MaxPosts
FairSpec == InitFair /\ [][Next]_vars /\ Fairness

\* the same scheduling, except that a handler may take for ever
FairnessButHandlers ==
    /\ \A c \in Conns : WF_vars(Announce(c)) /\ WF_vars(Push(c)) /\ WF_vars(Exit(c))
    /\ WF_vars(\E t \in TaskSet : Dispatch(t))
    /\ WF_vars(\E t \in TaskSet : Send(t))
InitSlow == InitServer /\ menu = SlowMenu /\ budget = MaxPosts
SlowSpec == InitSlow /\ [][Next]_vars /\ FairnessButHandlers

\* one request of every shape
InitDispatch == InitServer /\ menu \in {{Post("POST", "s1", b)} : b \in Bodies} /\ budget = MaxCalls
SpecDispatch == InitDispatch /\ [][Next]_vars

\* the tools whose handler requires an id, and the arguments they may get
IdTools == {"get_build", "get_build_logs", "get_release", "get_release_logs"}
IdArgumentMaps ==
    {<<>>,
     [buildId |-> JNum(0, 7)], [buildId |-> JStr("7")], [buildId |-> JNull],
     [buildId |-> JScalar],
     [releaseId |-> JNum(0, 7)], [releaseId |-> JStr("7")], [releaseId |-> JNull],
     [releaseId |-> JScalar],
     [buildId |-> JStr("7"), releaseId |-> JNum(0, 7)]}
IdCalls ==
    {JRequest("tools/call", JNum(0, 1), JParams(JStr(n), a)) :
        n \in IdTools, a \in {Absent, JNull} \cup {JArgs(m) : m \in IdArgumentMaps}}

\* one call of a tool that requires an id, with every shape of arguments
InitValidate == InitServer /\ menu \in {{Post("POST", "s1", b)} : b \in IdCalls} /\ budget = MaxCalls
SpecValidate == InitValidate /\ [][Next]_vars

\* requests that fail several of the receiver's checks at once
InitReceiver == InitServer /\ menu = ReceiverMenu /\ budget = MaxPosts
SpecReceiver == InitReceiver /\ [][Next]_vars

\* more requests on one session than its channel holds
InitLoad == InitServer /\ menu = LoadMenu /\ budget = ChanCap + MaxOverflow
SpecLoad == InitLoad /\ [][Next]_vars

\* The stalled session: the load specification reaches this server state
\* (connection c1 serves session s1, its channel holds ChanCap answers that
\* its stream has not pushed, the ChanCap tasks have ended).
StalledConn == "c1"
StalledTask ==
    Task("s1", StalledConn, CallNoBuildId, "done", "get_build",
         [err |-> TRUE, text |-> ValidationMessage("get_build"), backend |-> FALSE],
         HandlerResponse(DecodeRequest(CallNoBuildId),
                         [err |-> TRUE, text |-> ValidationMessage("get_build"), backend |-> FALSE]))
StalledItem ==
    [msg |-> Marshal(StalledTask.resp), sid |-> StalledTask.sid,
     body |-> StalledTask.body, out |-> StalledTask.out]
StalledServer ==
    /\ sessions = [x \in {"s1"} |-> StalledConn]
    /\ chans = [c \in Conns |-> IF c = StalledConn
                                THEN [i \in 1..ChanCap |-> StalledItem] ELSE <<>>]
    /\ conn = [c \in Conns |->
                IF c = StalledConn
                THEN [pc |-> "loop", sessionID |-> "s1", cancelled |-> FALSE]
                ELSE [pc |-> "idle", sessionID |-> "", cancelled |-> FALSE]]
    /\ stream = [c \in Conns |-> IF c = StalledConn
                                 THEN <<[event |-> "endpoint", data |-> "s1"]>> ELSE <<>>]
    /\ tasks = [t \in {StalledTask} |-> ChanCap]
    /\ inflight = EmptyBag
    /\ lastPost = [verb |-> "POST", sessionId |-> "s1", body |-> CallNoBuildId,
                   status |-> 202, reply |-> NoBody]
    /\ nposts = ChanCap

\* the stalled session's stream makes no progress: every goroutine that can
\* run does run, except that nothing makes the stalled stream push
FairnessStalled ==
    /\ \A c \in Conns : WF_vars(Announce(c)) /\ WF_vars(Exit(c))
    /\ \A c \in Conns \ {StalledConn} : WF_vars(Push(c))
    /\ WF_vars(\E t \in TaskSet : Dispatch(t))
    /\ WF_vars(\E t \in TaskSet : HandlerReturn(t))
    /\ WF_vars(\E t \in TaskSet : Send(t))
InitStalled == StalledServer /\ menu = StalledMenu /\ budget = ChanCap + MaxPosts
StalledSpec == InitStalled /\ [][Next]_vars /\ FairnessStalled

----------------------------------------------------------------------------
(* Observations used by the properties *)

\* the channel items a connection has pushed as message events
PushedItems(c) ==
    {stream[c][i].data : i \in {j \in 1..Len(stream[c]) : stream[c][j].event = "message"}}

\* the channel items waiting in a connection's channel
QueuedItems(c) == {chans[c][i] : i \in 1..Len(chans[c])}

\* every channel item ever sent on a connection's channel
SentItems(c) == PushedItems(c) \cup QueuedItems(c)

\* a handleMessage call has just begun
Received == nposts' = nposts + 1

\* the number of handleMessage calls answered so far
Answers == nposts - BagCardinality(inflight)

\* a handleMessage call has just been answered
Posted == Answers' = Answers + 1

\* a handleMessage call has just begun and was answered before it read the body
Refused == Received /\ inflight' = inflight

\* the handleMessage call q has just passed sessions.Load
Admitted(q) == Received /\ CopiesIn(q, inflight') = CopiesIn(q, inflight) + 1

\* no streaming connection serves this session id: it was never opened, or
\* its handleSSE has returned
NotOpen(sid) == \A c \in Conns : conn[c].sessionID = sid => conn[c].pc = "closed"

----------------------------------------------------------------------------
(* Properties *)

\* C1 (as claimed): every response pushed for an accepted request that
\* carries a correlation id carries that id unchanged.
C1_CorrelationIDUnchanged ==
    \A c \in Conns : \A m \in PushedItems(c) :
        m.body.id.k \in {"num", "str"} => m.msg.id = m.body.id

\* C2: the first event of every stream is the endpoint event with the
\* connection's session id, and every later event is a message event.
C2_EndpointFirst ==
    \A c \in Conns :
        stream[c] # <<>> =>
            /\ stream[c][1].event = "endpoint"
            /\ stream[c][1].data = conn[c].sessionID
            /\ \A i \in 2..Len(stream[c]) : stream[c][i].event = "message"

\* a stream that carries its endpoint event and then a message, while the
\* other session is open too
C2_Witness ==
    \E c \in Conns :
        /\ Len(stream[c]) >= 2
        /\ stream[c][2].event = "message"
        /\ \E d \in Conns \ {c} : conn[d].pc \in {"registered", "loop"}

\* C3: a handleMessage call for a POST that names a session id which no
\* connection has registered, or whose handleSSE has returned, is answered
\* 404 in the step that looks the id up: it does not go on to read its
\* body, and the step spawns nothing and sends nothing.  A dispatch task
\* only ever appears with the 202 of a call that passed that lookup, and
\* every channel item was sent by a task of an accepted request.
C3_UnknownSession404 ==
    [][/\ \A q \in BagToSet(inflight') : Admitted(q) => ~NotOpen(q.sessionId)
       /\ (Refused /\ lastPost'.verb = "POST" /\ lastPost'.sessionId # "")
            => (lastPost'.status = 404 /\ NotOpen(lastPost'.sessionId)
                /\ tasks' = tasks /\ chans' = chans /\ stream' = stream)
       /\ tasks' # tasks /\ BagCardinality(tasks') > BagCardinality(tasks)
            => /\ Posted /\ lastPost'.status = 202
               /\ \E q \in BagToSet(inflight) :
                    /\ q.sessionId = lastPost'.sessionId /\ q.body = lastPost'.body
                    /\ inflight' = inflight (-) SetToBag({q})
       /\ \A c \in Conns : \A m \in SentItems(c)' :
            \E t \in TaskSet' : t.pc = "done" /\ t.chan = c /\ t.sid = m.sid
                                /\ t.body = m.body
      ]_vars

\* a POST to the session id of a closed connection was answered 404
C3_Witness ==
    /\ lastPost.status = 404
    /\ \E c \in Conns : conn[c].sessionID = lastPost.sessionId /\ conn[c].pc = "closed"

\* the method and the params of the request a task or a channel item is for
MethodOf(x) == DecodeRequest(x.body).Method
ParamsOf(x) == DecodeRequest(x.body).Params

\* params that are not an object, or an object without a name member
MalformedParams(p) == p.k # "object" \/ p.name.k = "absent"

\* params that decode into a CallToolRequest with a name
WellFormedParams(p) ==
    /\ p.k = "object"
    /\ p.name.k = "str"
    /\ p.arguments.k \in {"absent", "null", "object"}

\* C4 (as claimed): a tools/call with malformed params is answered with
\* error -32602 and calls no handler.
C4_MalformedParamsInvalid ==
    \A t \in TaskSet :
        (MethodOf(t) = "tools/call" /\ MalformedParams(ParamsOf(t))) =>
            /\ t.called = ""
            /\ t.pc \in {"send", "done"} =>
                    (t.resp.Error # Nil /\ t.resp.Error.code = -32602)

\* a tools/call for a name that is not registered
UnknownToolCall(x) ==
    /\ MethodOf(x) = "tools/call"
    /\ WellFormedParams(ParamsOf(x))
    /\ ParamsOf(x).name.s \notin ToolNames

\* C5: a well-formed tools/call for an unregistered tool calls no handler
\* and is answered with error -32601 and no result.
C5_UnknownToolNotFound ==
    /\ \A t \in TaskSet :
        UnknownToolCall(t) =>
            /\ t.called = ""
            /\ t.out = Nil
            /\ t.pc \in {"start", "send", "done"}
            /\ t.pc \in {"send", "done"} =>
                    (t.resp.Result = Nil /\ t.resp.Error # Nil
                     /\ t.resp.Error.code = -32601)
    /\ \A c \in Conns : \A m \in SentItems(c) :
        UnknownToolCall(m) =>
            (m.msg.result = Absent /\ m.msg.error # Absent /\ m.msg.error.code = -32601)

\* the answer to a call of an unregistered tool has been pushed
C5_Witness == \E c \in Conns : \E m \in PushedItems(c) : UnknownToolCall(m)

\* C6: when the handler of a tools/call returns a failure, the response is a
\* success envelope whose result has isError set and one text block with the
\* failure's message.
C6_HandlerFailureInBand ==
    \A c \in Conns : \A m \in SentItems(c) :
        (m.out # Nil /\ m.out.err) =>
            /\ m.msg.error = Absent
            /\ m.msg.result # Absent
            /\ m.msg.result.k = "CallToolResult"
            /\ m.msg.result.isError = TRUE
            /\ Len(m.msg.result.content) = 1
            /\ m.msg.result.content[1].type = "text"
            /\ m.msg.result.content[1].text = m.out.text

\* the answer to a call whose backend request failed has been pushed
C6_Witness ==
    \E c \in Conns : \E m \in PushedItems(c) :
        m.out # Nil /\ m.out.err /\ m.out.text = "API request failed"

\* C7: a POST to a session of the directory passes the lookup, and when its
\* body is a notifications/initialized request it is answered 202; its
\* task ends without building a response, and no channel item for such a
\* request is ever enqueued or pushed.
C7_NotificationSilent ==
    [][/\ Refused => ~(lastPost'.verb = "POST" /\ lastPost'.sessionId \in DOMAIN sessions)
       /\ (Posted /\ ~Received /\ lastPost'.body.k = "object"
                  /\ lastPost'.body.method = "notifications/initialized")
            => lastPost'.status = 202
       /\ \A t \in TaskSet' :
            MethodOf(t) = "notifications/initialized" =>
                (t.pc \in {"start", "done"} /\ t.resp = Nil)
       /\ \A c \in Conns : \A m \in SentItems(c)' :
            MethodOf(m) # "notifications/initialized"
      ]_vars

\* an accepted notifications/initialized whose task has ended
C7_Witness ==
    \E t \in TaskSet :
        MethodOf(t) = "notifications/initialized" /\ t.pc = "done" /\ t.sid = "s1"

\* the two calls of the scenario: ids 1 and 2 on session s1
TwoCalls == {CallBuild1, CallList2}

\* the answer to request body b has been pushed on connection c with b's id
PushedFor(c, b) == \E m \in PushedItems(c) : m.body = b /\ m.msg.id = b.id

\* C8: of two tools/call requests with ids 1 and 2 accepted on one session,
\* every pushed response carries its own request's id, and each response is
\* eventually pushed on that session's stream unless the connection is
\* cancelled.
C8_BothDelivered ==
    /\ [](\A c \in Conns : \A m \in PushedItems(c) :
            m.body \in TwoCalls => m.msg.id = m.body.id)
    /\ \A c \in Conns : \A b \in TwoCalls :
            (\E t \in TaskSet : t.chan = c /\ t.body = b)
                ~> (PushedFor(c, b) \/ conn[c].cancelled)

\* id 1 was accepted before id 2, and the response for id 2 was pushed
\* before the response for id 1, on a connection that is still open
C8_Witness ==
    /\ nposts = 2
    /\ lastPost.body = CallList2 /\ lastPost.status = 202
    /\ \E c \in Conns :
        /\ ~conn[c].cancelled
        /\ \E i, j \in 1..Len(stream[c]) :
            /\ i < j
            /\ stream[c][i].event = "message" /\ stream[c][i].data.body = CallList2
            /\ stream[c][i].data.msg.id = JNum(0, 2)
            /\ stream[c][j].event = "message" /\ stream[c][j].data.body = CallBuild1
            /\ stream[c][j].data.msg.id = JNum(0, 1)

\* C9 (as claimed): no dispatch task is blocked for ever on its send.  A
\* task that waits to send on a full channel whose transport loop has
\* returned can never proceed, since only that loop receives from the channel.
C9_NoTaskBlockedForever ==
    \A t \in TaskSet :
        ~(/\ t.pc = "send"
          /\ Len(chans[t.chan]) = ChanCap
          /\ conn[t.chan].pc = "closed")

\* C10 (as claimed): no response is enqueued on the channel of a session
\* that has been removed from the directory.
C10_NoEnqueueAfterRemoval ==
    [][\A c \in Conns :
            Len(chans'[c]) > Len(chans[c]) => conn[c].sessionID \in DOMAIN sessions
      ]_vars

\* the handleSSE calls that have registered session id sid and not returned
LiveConns(sid) ==
    {c \in Conns : conn[c].sessionID = sid /\ conn[c].pc \in {"registered", "loop"}}

\* C11: every session id in the directory has exactly one handleSSE call
\* that has not returned, and the directory maps the id to the channel that
\* call receives from; every handleSSE call that has registered and not
\* returned is in the directory.
C11_OneConsumerPerSession ==
    /\ \A sid \in DOMAIN sessions :
        /\ Cardinality(LiveConns(sid)) = 1
        /\ sessions[sid] \in LiveConns(sid)
    /\ \A c \in Conns :
        conn[c].pc \in {"registered", "loop"} =>
            (conn[c].sessionID \in DOMAIN sessions /\ sessions[conn[c].sessionID] = c)

\* one session is in the directory with its loop running, after another
\* connection has closed and left the directory
C11_Witness ==
    /\ Cardinality(DOMAIN sessions) = 1
    /\ \E c, d \in Conns : conn[c].pc = "loop" /\ conn[d].pc = "closed"

\* C12: a handleMessage call is answered before it reads its body with 405
\* for a verb other than POST, else 400 for an empty sessionId, else 404
\* for a sessionId that is not in the directory; a call that passes these
\* three is a POST whose sessionId the directory holds at that moment, and
\* when its body has arrived it is answered 400 if the body does not
\* decode and 202 otherwise.
C12_StatusOrder ==
    [][/\ Received => (Refused \/ \E q \in BagToSet(inflight') : Admitted(q))
       /\ Refused =>
            lastPost'.status =
                IF lastPost'.verb # "POST" THEN 405
                ELSE IF lastPost'.sessionId = "" THEN 400
                ELSE IF lastPost'.sessionId \notin DOMAIN sessions THEN 404
                ELSE 0
       /\ \A q \in BagToSet(inflight') :
            Admitted(q) => /\ q.verb = "POST" /\ q.sessionId # ""
                           /\ q.sessionId \in DOMAIN sessions
                           /\ lastPost' = lastPost
       /\ (Posted /\ ~Received) =>
            \E q \in BagToSet(inflight) :
                /\ inflight' = inflight (-) SetToBag({q})
                /\ lastPost'.verb = q.verb /\ lastPost'.sessionId = q.sessionId
                /\ lastPost'.body = q.body
                /\ lastPost'.status = IF q.body.k = "garbage" THEN 400 ELSE 202
      ]_vars

\* an undecodable body posted to an unknown session was answered 404
C12_Witness ==
    /\ lastPost.verb = "POST" /\ lastPost.sessionId = "s3"
    /\ lastPost.body = Garbage /\ lastPost.status = 404

\* the message the scenario expects for the tools/list request with id 1
ListAnswer(m) ==
    /\ m.msg.jsonrpc = "2.0"
    /\ m.msg.id = JNum(0, 1)
    /\ m.msg.error = Absent
    /\ m.msg.result # Absent
    /\ m.msg.result.k = "tools"
    /\ BagToSet(m.msg.result.tools) = ToolNames
    /\ \A n \in ToolNames : CopiesIn(n, m.msg.result.tools) = 1

\* C13: every message for the tools/list request with id 1 has jsonrpc
\* "2.0", id 1 and a result listing every registered tool once and nothing
\* else, and once the request is accepted such a message is eventually
\* pushed on the session's stream unless the connection is cancelled.
C13_ToolsListAnswer ==
    /\ [](\A c \in Conns : \A m \in SentItems(c) : m.body = ListTools1 => ListAnswer(m))
    /\ \A c \in Conns :
            (\E t \in TaskSet : t.chan = c /\ t.body = ListTools1)
                ~> ((\E m \in PushedItems(c) : m.body = ListTools1 /\ ListAnswer(m))
                    \/ conn[c].cancelled)

\* the tools/list request was answered 202 and its answer has been pushed
\* on a connection that is still open
C13_Witness ==
    /\ lastPost.body = ListTools1 /\ lastPost.status = 202
    /\ \E c \in Conns :
        /\ ~conn[c].cancelled
        /\ \E m \in PushedItems(c) : m.body = ListTools1 /\ ListAnswer(m)

\* C14: once a connection's context is cancelled its handleSSE eventually
\* returns and its session id leaves the directory, whether or not a message
\* arrives on the channel; a closed connection's id stays out of the
\* directory, and a handleMessage call for a POST naming it that begins
\* from then on is answered 404 in the step that looks the id up.
C14_CancelRemovesSession ==
    /\ \A c \in Conns :
            conn[c].cancelled
                ~> (conn[c].pc = "closed" /\ conn[c].sessionID \notin DOMAIN sessions)
    /\ [](\A c \in Conns :
            conn[c].pc = "closed" => conn[c].sessionID \notin DOMAIN sessions)
    /\ [][/\ (Refused /\ lastPost'.verb = "POST"
                       /\ \E c \in Conns : /\ conn[c].pc = "closed"
                                           /\ conn[c].sessionID = lastPost'.sessionId)
                => lastPost'.status = 404
          /\ \A q \in BagToSet(inflight') :
                Admitted(q) => \A c \in Conns : conn[c].sessionID = q.sessionId
                                                    => conn[c].pc # "closed"
         ]_vars

\* a connection was cancelled and closed without any message ever sent on
\* its channel, and a POST naming its session was then answered 404
C14_Witness ==
    /\ lastPost.status = 404
    /\ \E c \in Conns :
        /\ conn[c].pc = "closed" /\ conn[c].cancelled
        /\ conn[c].sessionID = lastPost.sessionId
        /\ Len(stream[c]) = 1 /\ chans[c] = <<>>
        /\ \A t \in TaskSet : t.chan # c

\* C15: a handler that has not returned holds nothing up: a POST to a
\* session of the directory passes the lookup and, when its body has
\* arrived, is accepted whatever the other tasks are doing, and the answer
\* to a request that needs no handler is eventually pushed on its session's
\* stream unless the connection is cancelled, even if the handler of another
\* request never returns.
C15_SlowHandlerDelaysOnlyItself ==
    /\ [][/\ \A p \in menu :
                (p.verb = "POST" /\ p.sessionId \in DOMAIN sessions /\ nposts < budget)
                    => ENABLED handleMessage(p)
          /\ \A q \in BagToSet(inflight) : ENABLED handleMessageBody(q)
          /\ Refused => ~(lastPost'.verb = "POST" /\ lastPost'.sessionId \in DOMAIN sessions)
          /\ (Posted /\ ~Received /\ lastPost'.body.k = "object")
                => (lastPost'.status = 202
                    /\ \E t \in TaskSet' : /\ t.pc = "start"
                                           /\ t.sid = lastPost'.sessionId
                                           /\ t.body = lastPost'.body)
         ]_vars
    /\ \A c \in Conns :
            (\E t \in TaskSet : t.chan = c /\ t.body = ListTools1)
                ~> ((\E m \in PushedItems(c) : m.body = ListTools1) \/ conn[c].cancelled)

\* while the handler of the call accepted first has not returned, the
\* request accepted after it on the same session has been answered on the stream
C15_Witness ==
    /\ nposts = 2
    /\ lastPost.body = ListTools1 /\ lastPost.status = 202
    /\ \E t \in TaskSet :
        /\ t.body = CallBuild1 /\ t.pc = "handler"
        /\ t.sid = lastPost.sessionId
        /\ \E m \in PushedItems(t.chan) : m.body = ListTools1

\* C16: while the channel of the stalled session is full and its stream
\* pushes nothing, a POST to another session of the directory passes the
\* lookup, is accepted when its body has arrived, and its answer
\* is eventually pushed on that session's stream, unless that connection is
\* cancelled.
C16_StalledSessionIsolated ==
    /\ [][/\ \A q \in BagToSet(inflight') :
                Admitted(q) => q.chan = sessions[q.sessionId]
          /\ Refused => ~(lastPost'.verb = "POST" /\ lastPost'.sessionId \in DOMAIN sessions)
          /\ \A q \in BagToSet(inflight) :
                (Posted /\ inflight' = inflight (-) SetToBag({q})
                        /\ q.chan # StalledConn /\ q.body.k = "object")
                    => (lastPost'.status = 202
                        /\ \E t \in TaskSet' : /\ t.pc = "start"
                                               /\ t.chan = q.chan
                                               /\ t.body = q.body)
         ]_vars
    /\ \A c \in Conns \ {StalledConn} :
            (\E t \in TaskSet : t.chan = c /\ t.body = CallList2)
                ~> ((\E m \in PushedItems(c) : m.body = CallList2) \/ conn[c].cancelled)

\* the stalled channel is full, a task waits to send on it, the stalled
\* stream has pushed nothing, and the other session's answer has been pushed
C16_Witness ==
    /\ Len(chans[StalledConn]) = ChanCap
    /\ Len(stream[StalledConn]) = 1
    /\ \E t \in TaskSet : t.chan = StalledConn /\ t.pc = "send"
    /\ \E c \in Conns \ {StalledConn} : \E m \in PushedItems(c) : m.body = CallList2

\* C17: every response processRequest builds, and every message it
\* marshals, carries a result or an error and not both.
C17_ResultXorError ==
    /\ \A t \in TaskSet :
        t.pc \in {"send", "done"} /\ MethodOf(t) # "notifications/initialized" =>
            (t.resp # Nil /\ (t.resp.Result = Nil) # (t.resp.Error = Nil))
    /\ \A c \in Conns : \A m \in SentItems(c) :
        (m.msg.result = Absent) # (m.msg.error = Absent)

\* an error response for a method the server does not know has been
\* pushed: an error object and no result
C17_Witness ==
    \E c \in Conns : \E m \in PushedItems(c) :
        MethodOf(m) = "ping" /\ m.msg.result = Absent /\ m.msg.error # Absent

KnownMethods == {"initialize", "tools/list", "tools/call", "notifications/initialized"}

\* C19: a request whose method the switch does not know is answered with
\* error -32601 whose message ends in the method name, and its goroutine
\* calls no tool handler.
C19_UnknownMethodNamed ==
    /\ \A t \in TaskSet :
        MethodOf(t) \notin KnownMethods =>
            /\ t.called = ""
            /\ t.pc # "handler"
            /\ t.pc \in {"send", "done"} =>
                /\ t.resp.Result = Nil
                /\ t.resp.Error = JSONRPCError(-32601, "Method not found: " \o MethodOf(t))
    /\ \A c \in Conns : \A m \in SentItems(c) :
        MethodOf(m) \notin KnownMethods =>
            /\ m.out = Nil
            /\ m.msg.result = Absent
            /\ m.msg.error = JSONRPCError(-32601, "Method not found: " \o MethodOf(m))

\* the answer to a "ping" has been pushed to the client
C19_Witness ==
    \E c \in Conns : \E m \in PushedItems(c) :
        /\ MethodOf(m) = "ping"
        /\ m.msg.error # Absent
        /\ m.msg.error.message = "Method not found: ping"

\* the number of responses to request body b of session sid that were sent
\* on the channel of connection c: those pushed and those still queued
ItemsFor(c, sid, b) ==
    Cardinality({i \in 1..Len(stream[c]) :
                    /\ stream[c][i].event = "message"
                    /\ stream[c][i].data.sid = sid
                    /\ stream[c][i].data.body = b})
    + Cardinality({i \in 1..Len(chans[c]) : chans[c][i].sid = sid /\ chans[c][i].body = b})

\* the number of processRequest calls for that request that have returned
ReturnedFor(c, sid, b) ==
    BagCardinality([t \in {u \in TaskSet : /\ u.chan = c /\ u.sid = sid
                                           /\ u.body = b /\ u.pc = "done"}
                        |-> tasks[t]])

\* the number of accepted requests with that body on that session
AcceptedFor(c, sid, b) ==
    BagCardinality([t \in {u \in TaskSet : u.chan = c /\ u.sid = sid /\ u.body = b}
                        |-> tasks[t]])

\* C18: at every moment the responses sent for a request are as many as
\* its processRequest calls that have returned, and none for
\* notifications/initialized; and every processRequest call returns, so
\* that in the end each accepted request has exactly one response.
C18_OneResponsePerRequest ==
    /\ [](\A c \in Conns : \A sid \in SessionIDs : \A b \in {p.body : p \in menu} :
            ItemsFor(c, sid, b) =
                IF DecodeRequest(b).Method = "notifications/initialized"
                THEN 0 ELSE ReturnedFor(c, sid, b))
    /\ <>[](\A t \in TaskSet : t.pc = "done")

\* a call and a notification were accepted on one open session; both
\* processRequest calls have returned, one response was sent for the call
\* and none for the notification
C18_Witness ==
    \E c \in Conns :
        /\ conn[c].pc = "loop" /\ ~conn[c].cancelled
        /\ \A t \in TaskSet : t.pc = "done"
        /\ AcceptedFor(c, conn[c].sessionID, CallList2) = 1
        /\ AcceptedFor(c, conn[c].sessionID, Notification) = 1
        /\ ItemsFor(c, conn[c].sessionID, CallList2) = 1
        /\ ItemsFor(c, conn[c].sessionID, Notification) = 0

\* C20: handleMessage answers a request whose body decodes with 202 and an
\* empty body in the step that creates the request's processRequest
\* goroutine with the channel the call loaded:
\* that goroutine has not dispatched, no handler has been called for it
\* and it has no response yet; nothing is sent or pushed in that step, and
\* no goroutine moves.  The response exists only as an item on the
\* session's channel and stream.
C20_AckBeforeProcessing ==
    [][(Posted /\ lastPost'.status = 202) =>
            /\ lastPost'.reply = NoBody
            /\ \E q \in BagToSet(inflight) :
                /\ inflight' = inflight (-) SetToBag({q})
                /\ q.sessionId = lastPost'.sessionId /\ q.body = lastPost'.body
                /\ tasks' = tasks (+) SetToBag({Task(q.sessionId, q.chan, q.body,
                                                     "start", "", Nil, Nil)})
            /\ chans' = chans
            /\ stream' = stream
      ]_vars

\* a tools/list was acknowledged with 202 and an empty body while the
\* handler of an earlier call on the same session had not returned; later
\* its answer is on the stream
C20_Witness ==
    /\ lastPost.status = 202 /\ lastPost.reply = NoBody /\ lastPost.body = ListTools1
    /\ \E t \in TaskSet : t.pc = "handler" /\ t.sid = lastPost.sessionId
    /\ \E c \in Conns : \E m \in PushedItems(c) :
            m.body = ListTools1 /\ m.sid = lastPost.sessionId /\ m.msg.result # Absent

\* a request that handleMessage answered with 405 or 400
Rejected(p) == p.status \in {400, 405}

\* C21: the step in which handleMessage answers 405 or 400 creates no
\* processRequest goroutine and sends and pushes nothing; and every
\* goroutine, and every message sent, belongs to a request that decodes
\* (a rejected body never has one).
C21_RejectedNeverDispatched ==
    /\ [][(Posted /\ Rejected(lastPost')) =>
            (tasks' = tasks /\ chans' = chans /\ stream' = stream)]_vars
    /\ [](/\ \A t \in TaskSet : ~DecodeRequest(t.body).err
          /\ \A c \in Conns : \A m \in SentItems(c) : ~DecodeRequest(m.body).err)

\* the second of two requests, a POST with an undecodable body on an open
\* session, was answered 400 "Invalid JSON"; no goroutine exists and
\* nothing was sent
C21_Witness ==
    /\ nposts = 2
    /\ lastPost.verb = "POST" /\ lastPost.sessionId \in DOMAIN sessions
    /\ lastPost.body = Garbage /\ lastPost.status = 400
    /\ lastPost.reply = ErrorBody("Invalid JSON")
    /\ tasks = EmptyBag
    /\ \A c \in Conns : SentItems(c) = {}

\* C22: every processRequest goroutine holds the channel of the connection
\* that registered the session id its request named, and every message
\* sent on or pushed from a connection's channel answers a request that
\* named that connection's session id; a handleMessage call takes the
\* channel the directory holds for the named id when it looks the id up,
\* and its goroutine is created with that channel.
C22_SessionIsolation ==
    /\ [](/\ \A t \in TaskSet : conn[t.chan].sessionID = t.sid
          /\ \A q \in BagToSet(inflight) : conn[q.chan].sessionID = q.sessionId
          /\ \A c \in Conns : \A m \in SentItems(c) : m.sid = conn[c].sessionID)
    /\ [][/\ \A q \in BagToSet(inflight') :
                Admitted(q) => q.chan = sessions[q.sessionId]
          /\ (Posted /\ lastPost'.status = 202) =>
                \E q \in BagToSet(inflight) : \E t \in BagToSet(tasks') :
                    /\ inflight' = inflight (-) SetToBag({q})
                    /\ CopiesIn(t, tasks') = CopiesIn(t, tasks) + 1
                    /\ t.sid = lastPost'.sessionId /\ t.sid = q.sessionId
                    /\ t.chan = q.chan]_vars

\* two sessions are open, and each stream has been pushed the answer to
\* the request that named its session and nothing else
C22_Witness ==
    \E c, d \in Conns :
        /\ c # d
        /\ conn[c].sessionID = "s1" /\ conn[d].sessionID = "s2"
        /\ \E m \in PushedItems(c) : m.sid = "s1"
        /\ \E m \in PushedItems(d) : m.sid = "s2"

\* the message events written on a connection's stream, in order
IsMessage(e) == e.event = "message"
PushedSeq(c) == SelectSeq(stream[c], IsMessage)

\* the number of messages sent on a connection's channel so far
Enqueued(c) == Len(PushedSeq(c)) + Len(chans[c])

\* C23: a step that writes on a connection's stream either writes the
\* endpoint event or takes the oldest message of the connection's channel
\* and writes it as a message event; nothing else removes a message from
\* the channel, and a send puts its message behind those waiting.  So the
\* message events followed by the waiting messages are always the messages
\* in the order they were sent.  And the k-th message sent is eventually
\* pushed unless the connection is cancelled.
C23_PushedOnceInOrder ==
    /\ [][\A c \in Conns :
            /\ stream'[c] # stream[c] =>
                \/ /\ stream'[c] = Append(stream[c],
                                          [event |-> "endpoint", data |-> conn[c].sessionID])
                   /\ chans'[c] = chans[c]
                \/ /\ chans[c] # <<>>
                   /\ stream'[c] = Append(stream[c],
                                          [event |-> "message", data |-> Head(chans[c])])
                   /\ chans'[c] = Tail(chans[c])
            /\ (stream'[c] = stream[c] /\ chans'[c] # chans[c]) =>
                /\ Len(chans'[c]) = Len(chans[c]) + 1
                /\ SubSeq(chans'[c], 1, Len(chans[c])) = chans[c]
         ]_vars
    /\ \A c \in Conns : \A k \in 1..MaxPosts :
            (Enqueued(c) >= k) ~> (Len(PushedSeq(c)) >= k \/ conn[c].cancelled)

\* on an open connection the answer to the call with id 2 has been pushed
\* while the answer to the call with id 1, sent after it, waits in the channel
C23_Witness ==
    \E c \in Conns :
        /\ conn[c].pc = "loop" /\ ~conn[c].cancelled
        /\ Len(PushedSeq(c)) = 1 /\ PushedSeq(c)[1].data.body = CallList2
        /\ Len(chans[c]) = 1 /\ chans[c][1].body = CallBuild1

\* the id argument the claim names for a tool
ClaimedID(name) == IF name \in {"get_build", "get_build_logs"} THEN "buildId" ELSE "releaseId"

\* a tools/call of one of the four tools whose id argument is absent or
\* is not a number
InvalidIdCall(x) ==
    /\ MethodOf(x) = "tools/call"
    /\ WellFormedParams(ParamsOf(x))
    /\ ParamsOf(x).name.s \in IdTools
    /\ \/ ParamsOf(x).arguments.k # "object"
       \/ ClaimedID(ParamsOf(x).name.s) \notin DOMAIN ParamsOf(x).arguments.m
       \/ ParamsOf(x).arguments.m[ClaimedID(ParamsOf(x).name.s)].k # "num"

\* the envelope the claim expects for such a call
ValidationAnswer(x, msg) ==
    /\ msg.error = Absent
    /\ msg.result # Absent
    /\ msg.result.k = "CallToolResult"
    /\ msg.result.isError = TRUE
    /\ Len(msg.result.content) = 1
    /\ msg.result.content[1].type = "text"
    /\ msg.result.content[1].text =
            ClaimedID(ParamsOf(x).name.s) \o " is required and must be an integer"

\* C24: a call of get_build, get_build_logs, get_release or
\* get_release_logs whose id argument is absent or not a number reaches the
\* tool's handler, the handler fails without calling the backend client,
\* and the response is a success envelope with isError set and the
\* validation message as its text, with no error object.
C24_ValidationInBand ==
    /\ \A t \in TaskSet :
        InvalidIdCall(t) =>
            /\ t.pc # "start" => t.called = ParamsOf(t).name.s
            /\ t.pc \in {"send", "done"} =>
                /\ t.out # Nil /\ t.out.err /\ ~t.out.backend
                /\ t.resp.Error = Nil
                /\ ValidationAnswer(t, Marshal(t.resp))
    /\ \A c \in Conns : \A m \in SentItems(c) :
        InvalidIdCall(m) =>
            (m.out # Nil /\ m.out.err /\ ~m.out.backend /\ ValidationAnswer(m, m.msg))

\* the answer to a get_release call whose releaseId is the string "7" has
\* been pushed: isError with the releaseId message, the backend not called
C24_Witness ==
    \E c \in Conns : \E m \in PushedItems(c) :
        /\ ParamsOf(m) = JParams(JStr("get_release"), JArgs([releaseId |-> JStr("7")]))
        /\ ~m.out.backend
        /\ m.msg.error = Absent
        /\ m.msg.result.isError
        /\ m.msg.result.content[1].text = "releaseId is required and must be an integer"

====
